---- MODULE Spec2Model ----
(***************************************************************************)
(* EditorHandler: the binding of a code editor to the debugger's           *)
(* breakpoints.                                                            *)
(*                                                                         *)
(* One EditorHandler bound to one CodeMirror editor and one debugger       *)
(* service.  The editor document is a sequence of lines; a line carries    *)
(* its text, its 'breakpoints' gutter marker and its highlight class, and  *)
(* both decorations travel with the line when lines are inserted or        *)
(* removed around it.  Line numbers are 0-indexed in the editor and        *)
(* 1-indexed in breakpoints, as in the source.                             *)
(*                                                                         *)
(* The debugger service and its breakpoints model are collaborators: a     *)
(* request to updateBreakpoints stays in flight until the service applies  *)
(* it to the model (which then emits 'changed') or drops it.  The model    *)
(* of the service may be unset or replaced; the handler re-resolves it.    *)
(*                                                                         *)
(* Breakpoints: the panel whose header button asks the same service to     *)
(* clear all breakpoints.                                                  *)
(***************************************************************************)
EXTENDS Integers, Sequences, FiniteSets, TLC

\* ---------------------------------------------------------------- bounds
MaxLines == 2
MaxPending == 1
MaxInFlight == 2
MaxBps == 2
MaxSubs == 2
MaxDisposeCalls == 2
MaxClears == 2

\* ------------------------------------------------------------- constants
Tokens == {"a"}
NoPath == "undefined"
FilePath == "file.py"
Sessions == {1, 2}
Texts == UNION {[1..n -> Tokens] : n \in 1..MaxLines}

\* service.session.client.path and service.session.client.name: two sessions
\* on notebooks of the same name in different folders
SessionPath(s) == IF s = 1 THEN "a/nb.ipynb" ELSE "b/nb.ipynb"
SessionName(s) == "nb.ipynb"

Min(a, b) == IF a < b THEN a ELSE b
Max(a, b) == IF a > b THEN a ELSE b
Range(s) == {s[i] : i \in 1..Len(s)}

VARIABLES
    doc,            \* the CodeMirror document: Seq of [txt, mk, hl]
    editorDisposed, \* this._editor.isDisposed
    lineNumbers,    \* editor option 'lineNumbers'
    gutters,        \* editor option 'gutters'
    clickListener,  \* editor.editor 'gutterClick' listener attached
    hId,            \* this._id
    hPath,          \* this._path
    session,        \* the service's active session
    isDisposed,     \* this.isDisposed
    monitorDisposed,\* this._editorMonitor.isDisposed
    timerArmed,     \* the activity monitor's timer is running
    modelChangedConnected, \* service.modelChanged -> this._onModelChanged
    subs,           \* number of subscriptions made by _onModelChanged
    bpModel,        \* the breakpoints model: source id -> Seq of breakpoints
    pending,        \* updateBreakpoints requests in flight
    lastOp,         \* the last operation that ran
    cleanups,       \* how many times dispose() ran its cleanup steps
    disposeCalls,   \* how many times dispose() was called
    clickRun,       \* only clicks and their updates since an empty model
    inSync,         \* every click so far found no update in flight
    oddClicked,     \* 1-indexed lines clicked an odd number of times
    modelResolved,  \* this._debuggerModel is not null
    oldSubs,        \* subscriptions left on models resolved earlier
    thrown,         \* an operation of the handler raised a TypeError
    children,       \* the Breakpoints panel's child widgets, in order
    clearPending    \* clearBreakpoints requests in flight

\* the handler's hold on the service's model
modelVars == <<modelResolved, oldSubs>>

\* the Breakpoints panel and its requests
panelVars == <<children, clearPending>>

vars == <<doc, editorDisposed, lineNumbers, gutters, clickListener, hId, hPath,
          session, isDisposed, monitorDisposed, timerArmed,
          modelChangedConnected, subs, bpModel, pending, lastOp, cleanups,
          disposeCalls, clickRun, inSync, oddClicked, modelResolved, oldSubs,
          thrown, children, clearPending>>

\* --------------------------------------------------------------- editor
NewLine(t) == [txt |-> t, mk |-> FALSE, hl |-> FALSE]

\* editor.model.value.text
Text(d) == [i \in 1..Len(d) |-> d[i].txt]

\* doc.lineCount()
LineCount(d) == Len(d)

\* CodeMirror takes a line number outside the document, given to
\* setGutterMarker or addLineClass, as the nearest line of the document
ClipLine(d, n) == Max(0, Min(n, LineCount(d) - 1))

\* editor.lineInfo(n): null outside the document
LineInfo(d, n) ==
    IF n >= 0 /\ n < LineCount(d)
    THEN [ok |-> TRUE, line |-> n, gutterMarkers |-> d[n + 1].mk]
    ELSE [ok |-> FALSE, line |-> n, gutterMarkers |-> FALSE]

\* editor.setGutterMarker(n, 'breakpoints', value)
SetGutterMarker(d, n, v) == [d EXCEPT ![ClipLine(d, n) + 1].mk = v]

\* editor.addLineClass(n, 'wrap', LINE_HIGHLIGHT_CLASS)
AddLineClass(d, n) == [d EXCEPT ![ClipLine(d, n) + 1].hl = TRUE]

MarkedLines(d) == {i - 1 : i \in {j \in 1..Len(d) : d[j].mk}}
HighlightedLines(d) == {i - 1 : i \in {j \in 1..Len(d) : d[j].hl}}

\* ------------------------------------------------------ service (external)
\* getCodeId(code): a source identity derived from the code text, equal for
\* equal texts and different for different texts
GetCodeId(code) == <<"code">> \o code

\* a ?? b on an optional path
OrElse(p, other) == IF p # NoPath THEN p ELSE other

\* the key of the breakpoints model: a path, or the id of a code text
PathId(p) == <<p>>
SourceIds == {PathId(FilePath)} \cup {GetCodeId(t) : t \in Texts}
SourceId(path, code) == IF path # NoPath THEN PathId(path) ELSE GetCodeId(code)

\* ---------------------------------------------------------------- Private
createBreakpoint(sessionName, line) ==
    [line |-> line, active |-> TRUE, verified |-> TRUE, source |-> sessionName]

\* ------------------------------------------------------- EditorHandler statics
clearHighlight(d, disposed) ==
    IF disposed THEN d
    ELSE [i \in 1..Len(d) |-> [d[i] EXCEPT !.hl = FALSE]]

showCurrentLine(d, disposed, line) ==
    AddLineClass(clearHighlight(d, disposed), line - 1)

clearGutter(d) ==
    [i \in 1..Len(d) |-> IF d[i].mk THEN [d[i] EXCEPT !.mk = FALSE] ELSE d[i]]

\* ------------------------------------------------------- EditorHandler methods
getBreakpoints(d, model, path) ==
    model[SourceId(path, Text(d))]

RECURSIVE SetMarkers(_, _)
SetMarkers(d, bps) ==
    IF bps = <<>> THEN d
    ELSE SetMarkers(SetGutterMarker(d, Head(bps).line - 1, TRUE), Tail(bps))

\* _addBreakpointsToEditor that forgets to clear the gutter first
addBreakpointsToEditor_NoClear(d, model, path, id, sess) ==
    LET breakpoints == getBreakpoints(d, model, path)
    IN  IF id # SessionPath(sess) THEN d
        ELSE SetMarkers(d, breakpoints)

\* _addBreakpointsToEditor that clears the gutter and draws nothing
addBreakpointsToEditor_OnlyClears(d, model, path, id, sess) ==
    IF id # SessionPath(sess) THEN d ELSE clearGutter(d)

\* _addBreakpointsToEditor without the stale-session check
addBreakpointsToEditor_NoSessionCheck(d, model, path, id, sess) ==
    LET breakpoints == getBreakpoints(d, model, path)
    IN  SetMarkers(clearGutter(d), breakpoints)

addBreakpointsToEditor(d, model, path, id, sess) ==
    LET breakpoints == getBreakpoints(d, model, path)
    IN  IF id # SessionPath(sess) THEN d
        ELSE SetMarkers(clearGutter(d), breakpoints)

\* the 'changed' and 'restored' slots connected in _onModelChanged
onBreakpoints(d, disposed, model, path, id, sess) ==
    IF disposed THEN d
    ELSE addBreakpointsToEditor(d, model, path, id, sess)

\* a signal emission runs every connected slot
RECURSIVE Emit(_, _, _, _, _, _, _)
Emit(k, d, disposed, model, path, id, sess) ==
    IF k = 0 THEN d
    ELSE Emit(k - 1, onBreakpoints(d, disposed, model, path, id, sess),
              disposed, model, path, id, sess)

RECURSIVE EmitFrame(_, _, _)
EmitFrame(k, d, disposed) ==
    IF k = 0 THEN d ELSE EmitFrame(k - 1, clearHighlight(d, disposed), disposed)

getBreakpointsFromEditor(d) ==
    LET F[i \in 0..LineCount(d)] ==
            IF i = 0 THEN <<>>
            ELSE IF LineInfo(d, i - 1).gutterMarkers
                 THEN Append(F[i - 1], LineInfo(d, i - 1))
                 ELSE F[i - 1]
    IN  F[LineCount(d)]

\* the request with the editor's 0-indexed line numbers left as they are
EditorBreakpoints_ZeroIndexed(d, path, sess) ==
    LET lines == getBreakpointsFromEditor(d)
    IN  [code |-> Text(d),
         bps  |-> [i \in 1..Len(lines) |->
                      createBreakpoint(SessionName(sess), lines[i].line)],
         path |-> path]

\* the request _sendEditorBreakpoints submits
EditorBreakpoints(d, path, sess) ==
    LET lines == getBreakpointsFromEditor(d)
    IN  [code |-> Text(d),
         bps  |-> [i \in 1..Len(lines) |->
                      createBreakpoint(SessionName(sess), lines[i].line + 1)],
         path |-> path]

\* _sendEditorBreakpoints connected twice to activityStopped
sendEditorBreakpoints_Twice(reqs, d, disposed, path, sess) ==
    IF disposed THEN reqs
    ELSE Append(Append(reqs, [code |-> Text(d), bps |-> <<>>, path |-> path]),
                [code |-> Text(d), bps |-> <<>>, path |-> path])

sendEditorBreakpoints(reqs, d, disposed, path, sess) ==
    IF disposed THEN reqs
    ELSE Append(reqs, EditorBreakpoints(d, path, sess))

RemoveLine(bps, line) ==
    LET F[i \in 0..Len(bps)] ==
            IF i = 0 THEN <<>>
            ELSE IF bps[i].line # line THEN Append(F[i - 1], bps[i]) ELSE F[i - 1]
    IN  F[Len(bps)]

\* the click list with the removed line taken 0-indexed
ClickBreakpoints_OffByOne(d, model, path, sess, n) ==
    LET info == LineInfo(d, n)
        remove == info.gutterMarkers
        breakpoints == getBreakpoints(d, model, path)
    IN  IF remove
        THEN RemoveLine(breakpoints, info.line)
        ELSE Append(breakpoints,
                    createBreakpoint(OrElse(path, SessionName(sess)), info.line + 1))

\* the click list that never removes
ClickBreakpoints_AlwaysAdd(d, model, path, sess, n) ==
    LET info == LineInfo(d, n)
        breakpoints == getBreakpoints(d, model, path)
    IN  Append(breakpoints,
               createBreakpoint(OrElse(path, SessionName(sess)), info.line + 1))

\* the list onGutterClick submits for line n
ClickBreakpoints(d, model, path, sess, n) ==
    LET info == LineInfo(d, n)
        remove == info.gutterMarkers
        breakpoints == getBreakpoints(d, model, path)
    IN  IF remove
        THEN RemoveLine(breakpoints, info.line + 1)
        ELSE Append(breakpoints,
                    createBreakpoint(OrElse(path, SessionName(sess)), info.line + 1))

\* onGutterClick without the stale-handler guard
onGutterClick_NoSessionCheck(reqs, d, model, path, id, sess, n) ==
    LET info == LineInfo(d, n)
    IN  IF ~info.ok THEN reqs
        ELSE Append(reqs, [code |-> Text(d),
                           bps  |-> ClickBreakpoints(d, model, path, sess, n),
                           path |-> path])

onGutterClick(reqs, d, model, path, id, sess, n) ==
    LET info == LineInfo(d, n)
    IN  IF ~info.ok \/ id # SessionPath(sess) THEN reqs
        ELSE Append(reqs, [code |-> Text(d),
                           bps  |-> ClickBreakpoints(d, model, path, sess, n),
                           path |-> path])

\* onGutterClick reaches _getBreakpoints, which dereferences
\* this._debuggerModel, while no model is resolved
getBreakpointsThrows(d, resolved, id, sess, n) ==
    LineInfo(d, n).ok /\ id = SessionPath(sess) /\ ~resolved

\* _setupEditor on a live editor reaches _getBreakpoints while no model is
\* resolved
setupEditorThrows(resolved, disposed) == ~disposed /\ ~resolved

\* a 'changed' or 'restored' slot reaches _getBreakpoints while no model is
\* resolved
onBreakpointsThrows(resolved, disposed) == ~disposed /\ ~resolved

setupEditor(d, model, path, id, sess) ==
    addBreakpointsToEditor(d, model, path, id, sess)

\* _clearEditor that leaves the gutter markers
clearEditorDoc_KeepsMarkers(d, disposed) ==
    IF disposed THEN d ELSE clearHighlight(d, disposed)

\* the decorations _clearEditor leaves on the editor
clearEditorDoc(d, disposed) ==
    IF disposed THEN d ELSE clearGutter(clearHighlight(d, disposed))

\* ------------------------------------------------------------- initial state
EmptyModel == [s \in SourceIds |-> <<>>]

\* the models a restore installs: empty, or one breakpoint on a line of the
\* text, under the source the editor currently names
RestoreModels(d, path) ==
    {EmptyModel} \cup
    {[EmptyModel EXCEPT ![SourceId(path, Text(d))] =
          <<createBreakpoint(SessionName(1), l)>>] : l \in 1..LineCount(d)}

InitDocs == {[i \in 1..MaxLines |-> NewLine(t)] : t \in Tokens}

\* the state the constructor leaves: model resolved, one subscription of each
\* kind, monitor running, editor set up and rendered
Constructed ==
    /\ hPath \in {NoPath, FilePath}
    /\ session = 1
    /\ hId = SessionPath(session)
    /\ editorDisposed = FALSE
    /\ lineNumbers = TRUE
    /\ gutters = TRUE
    /\ clickListener = TRUE
    /\ isDisposed = FALSE
    /\ monitorDisposed = FALSE
    /\ timerArmed = FALSE
    /\ modelChangedConnected = TRUE
    /\ subs = 1
    /\ pending = <<>>
    /\ lastOp = [op |-> "constructor", line |-> 0]
    /\ cleanups = 0
    /\ disposeCalls = 0
    /\ inSync = TRUE
    /\ oddClicked = {}
    /\ modelResolved = TRUE
    /\ oldSubs = 0
    /\ thrown = FALSE
    /\ children = <<"header", "body">>
    /\ clearPending = 0

Init ==
    /\ Constructed
    /\ \E d \in InitDocs :
          /\ bpModel \in RestoreModels(d, hPath)
          /\ doc = setupEditor(d, bpModel, hPath, hId, session)
    /\ clickRun = FALSE

\* the state the constructor leaves when service.model is null: _onModelChanged
\* subscribes to nothing, modelChanged is connected, the monitor runs, and
\* _setupEditor has thrown before it configured the editor
InitNoModel ==
    /\ hPath \in {NoPath, FilePath}
    /\ session = 1
    /\ hId = SessionPath(session)
    /\ modelResolved = FALSE
    /\ subs = 0
    /\ oldSubs = 0
    /\ bpModel = EmptyModel
    /\ modelChangedConnected = TRUE
    /\ monitorDisposed = FALSE
    /\ timerArmed = FALSE
    /\ editorDisposed = FALSE
    /\ doc \in InitDocs
    /\ thrown = setupEditorThrows(modelResolved, editorDisposed)
    /\ lineNumbers = ~thrown
    /\ gutters = ~thrown
    /\ clickListener = ~thrown
    /\ isDisposed = FALSE
    /\ pending = <<>>
    /\ lastOp = [op |-> "constructor", line |-> 0]
    /\ cleanups = 0
    /\ disposeCalls = 0
    /\ clickRun = FALSE
    /\ inSync = TRUE
    /\ oddClicked = {}
    /\ children = <<"header", "body">>
    /\ clearPending = 0

\* a handler constructed while the service has a model, or has none
InitAnyModel == Init \/ InitNoModel

\* a handler constructed over an empty breakpoints model
InitClicks ==
    /\ Constructed
    /\ bpModel = EmptyModel
    /\ \E d \in InitDocs : doc = setupEditor(d, bpModel, hPath, hId, session)
    /\ clickRun = TRUE

\* ------------------------------------------------------------------ actions
Op(name, line) == [op |-> name, line |-> line]

RemoveAt(s, i) == [j \in 1..(Len(s) - 1) |-> IF j < i THEN s[j] ELSE s[j + 1]]
InsertAt(s, i, x) ==
    [j \in 1..(Len(s) + 1) |-> IF j < i THEN s[j] ELSE IF j = i THEN x ELSE s[j - 1]]

SymDiff(S, x) == IF x \in S THEN S \ {x} ELSE S \cup {x}

\* the source an updateBreakpoints request is stored under
RequestSource(req) == SourceId(req.path, req.code)

\* the history of a run of clicks ends
EndClickRun ==
    /\ clickRun' = FALSE
    /\ inSync' = TRUE
    /\ oddClicked' = {}

\* a click whose handler draws or removes the line's marker itself
Click_TogglesMarker(n, inFlight) ==
    /\ n \in 0..(LineCount(doc) - 1)
    /\ Len(pending) < inFlight
    /\ Len(ClickBreakpoints(doc, bpModel, hPath, session, n)) <= MaxBps
    /\ pending' = IF clickListener /\ modelResolved
                  THEN onGutterClick(pending, doc, bpModel, hPath, hId, session, n)
                  ELSE pending
    /\ doc' = IF clickListener /\ modelResolved /\ hId = SessionPath(session)
              THEN SetGutterMarker(doc, n, ~LineInfo(doc, n).gutterMarkers)
              ELSE doc
    /\ lastOp' = Op("gutterClick", n)
    /\ UNCHANGED <<editorDisposed, lineNumbers, gutters, clickListener, hId,
                   hPath, session, isDisposed, monitorDisposed, timerArmed,
                   modelChangedConnected, subs, bpModel, cleanups, disposeCalls,
                   clickRun, inSync, oddClicked, modelVars, thrown, panelVars>>

\* a 'gutterClick' event of the editor on 0-indexed line n: it runs
\* onGutterClick while the handler's listener is attached
Click(n, inFlight) ==
    /\ n \in 0..(LineCount(doc) - 1)
    /\ Len(pending) < inFlight
    /\ Len(ClickBreakpoints(doc, bpModel, hPath, session, n)) <= MaxBps
    /\ pending' = IF clickListener /\ modelResolved
                  THEN onGutterClick(pending, doc, bpModel, hPath, hId, session, n)
                  ELSE pending
    /\ thrown' = (thrown \/ (clickListener
                              /\ getBreakpointsThrows(doc, modelResolved, hId,
                                                      session, n)))
    /\ lastOp' = Op("gutterClick", n)
    /\ oddClicked' = IF clickRun THEN SymDiff(oddClicked, n + 1) ELSE oddClicked
    /\ inSync' = IF clickRun THEN inSync /\ pending = <<>> ELSE inSync
    /\ UNCHANGED <<doc, editorDisposed, lineNumbers, gutters, clickListener, hId,
                   hPath, session, isDisposed, monitorDisposed, timerArmed,
                   modelChangedConnected, subs, bpModel, cleanups, disposeCalls,
                   clickRun>>
    /\ UNCHANGED <<modelVars, panelVars>>

GutterClick(n) == Click(n, MaxPending)

\* a click made while earlier updates may still be in flight
BurstClick(n) == Click(n, MaxInFlight)

\* service.updateBreakpoints completes: the model stores the list and emits 'changed'
UpdateBreakpointsDone(i) ==
    /\ i \in 1..Len(pending)
    /\ modelResolved
    /\ UNCHANGED <<modelVars, thrown, panelVars>>
    /\ bpModel' = [bpModel EXCEPT ![RequestSource(pending[i])] = pending[i].bps]
    /\ pending' = RemoveAt(pending, i)
    /\ doc' = Emit(subs, doc, editorDisposed, bpModel', hPath, hId, session)
    /\ lastOp' = Op("changed", 0)
    /\ UNCHANGED <<editorDisposed, lineNumbers, gutters, clickListener, hId, hPath,
                   session, isDisposed, monitorDisposed, timerArmed,
                   modelChangedConnected, subs, cleanups, disposeCalls, clickRun,
                   inSync, oddClicked>>

\* service.updateBreakpoints fails or is ignored by the service
UpdateBreakpointsFailed(i) ==
    /\ UNCHANGED <<modelVars, thrown, panelVars>>
    /\ i \in 1..Len(pending)
    /\ pending' = RemoveAt(pending, i)
    /\ lastOp' = Op("updateFailed", 0)
    /\ inSync' = IF clickRun THEN FALSE ELSE inSync
    /\ UNCHANGED <<doc, editorDisposed, lineNumbers, gutters, clickListener, hId,
                   hPath, session, isDisposed, monitorDisposed, timerArmed,
                   modelChangedConnected, subs, bpModel, cleanups, disposeCalls,
                   clickRun, oddClicked>>

\* the breakpoints model emits 'changed' for a change to some other source
BreakpointsChanged ==
    /\ modelResolved
    /\ UNCHANGED <<modelVars, thrown, panelVars>>
    /\ doc' = Emit(subs, doc, editorDisposed, bpModel, hPath, hId, session)
    /\ lastOp' = Op("changed", 0)
    /\ UNCHANGED <<editorDisposed, lineNumbers, gutters, clickListener, hId, hPath,
                   session, isDisposed, monitorDisposed, timerArmed,
                   modelChangedConnected, subs, bpModel, pending, cleanups,
                   disposeCalls, clickRun, inSync, oddClicked>>

\* the breakpoints model is restored and emits 'restored'
BreakpointsRestored(m) ==
    /\ modelResolved
    /\ UNCHANGED <<modelVars, thrown, panelVars>>
    /\ bpModel' = m
    /\ doc' = Emit(subs, doc, editorDisposed, bpModel', hPath, hId, session)
    /\ lastOp' = Op("restored", 0)
    /\ EndClickRun
    /\ UNCHANGED <<editorDisposed, lineNumbers, gutters, clickListener, hId, hPath,
                   session, isDisposed, monitorDisposed, timerArmed,
                   modelChangedConnected, subs, pending, cleanups, disposeCalls>>

\* editor.model.value.changed: the activity monitor restarts its timer
EditorChanged(d) ==
    /\ UNCHANGED <<modelVars, thrown, panelVars>>
    /\ ~editorDisposed
    /\ doc' = d
    /\ timerArmed' = ~monitorDisposed
    /\ lastOp' = Op("editorChanged", 0)
    /\ EndClickRun
    /\ UNCHANGED <<editorDisposed, lineNumbers, gutters, clickListener, hId, hPath,
                   session, isDisposed, monitorDisposed, modelChangedConnected,
                   subs, bpModel, pending, cleanups, disposeCalls>>

\* a line is typed in: the lines below it move down with their decorations
InsertLine ==
    /\ LineCount(doc) < MaxLines
    /\ \E i \in 1..(Len(doc) + 1), t \in Tokens :
          EditorChanged(InsertAt(doc, i, NewLine(t)))

\* a line is removed: the lines below it move up with their decorations
DeleteLine ==
    /\ LineCount(doc) > 1
    /\ \E i \in 1..Len(doc) : EditorChanged(RemoveAt(doc, i))

\* the text of a line is retyped
ChangeLine ==
    \E i \in 1..Len(doc), t \in Tokens :
        EditorChanged([doc EXCEPT ![i].txt = t])

\* the activity monitor's timer elapses: activityStopped
ActivityStopped ==
    /\ UNCHANGED <<modelVars, thrown, panelVars>>
    /\ timerArmed
    /\ ~monitorDisposed
    /\ Len(pending) < MaxPending
    /\ timerArmed' = FALSE
    /\ pending' = sendEditorBreakpoints(pending, doc, editorDisposed, hPath, session)
    /\ lastOp' = Op("activityStopped", 0)
    /\ UNCHANGED <<doc, editorDisposed, lineNumbers, gutters, clickListener, hId,
                   hPath, session, isDisposed, monitorDisposed,
                   modelChangedConnected, subs, bpModel, cleanups, disposeCalls,
                   clickRun, inSync, oddClicked>>

\* the steps of dispose() after its isDisposed check
DisposeBody ==
    /\ monitorDisposed' = TRUE
    /\ timerArmed' = FALSE
    /\ doc' = clearEditorDoc(doc, editorDisposed)
    /\ lineNumbers' = IF editorDisposed THEN lineNumbers ELSE FALSE
    /\ gutters' = IF editorDisposed THEN gutters ELSE FALSE
    /\ clickListener' = IF editorDisposed THEN clickListener ELSE FALSE
    /\ isDisposed' = TRUE
    /\ modelChangedConnected' = FALSE
    /\ cleanups' = Min(cleanups + 1, MaxDisposeCalls)
    /\ UNCHANGED <<editorDisposed, hId, hPath, session, subs, bpModel, pending>>

DisposeCall(body) ==
    /\ UNCHANGED <<modelVars, thrown, panelVars>>
    /\ disposeCalls < MaxDisposeCalls
    /\ disposeCalls' = disposeCalls + 1
    /\ lastOp' = Op("dispose", 0)
    /\ EndClickRun
    /\ body

\* dispose() without its isDisposed check
DisposeUnguarded == DisposeCall(DisposeBody)

\* dispose()
Dispose ==
    DisposeCall(IF isDisposed
                THEN UNCHANGED <<doc, editorDisposed, lineNumbers, gutters,
                                 clickListener, hId, hPath, session, isDisposed,
                                 monitorDisposed, timerArmed, modelChangedConnected,
                                 subs, bpModel, pending, cleanups>>
                ELSE DisposeBody)

\* the editor widget is disposed by its owner
EditorDispose ==
    /\ UNCHANGED <<modelVars, thrown, panelVars>>
    /\ ~editorDisposed
    /\ editorDisposed' = TRUE
    /\ lastOp' = Op("editorDispose", 0)
    /\ EndClickRun
    /\ UNCHANGED <<doc, lineNumbers, gutters, clickListener, hId, hPath, session,
                   isDisposed, monitorDisposed, timerArmed, modelChangedConnected,
                   subs, bpModel, pending, cleanups, disposeCalls>>

\* the service's active session changes
SessionChanged(s) ==
    /\ UNCHANGED <<modelVars, thrown, panelVars>>
    /\ s # session
    /\ session' = s
    /\ lastOp' = Op("sessionChanged", 0)
    /\ EndClickRun
    /\ UNCHANGED <<doc, editorDisposed, lineNumbers, gutters, clickListener, hId,
                   hPath, isDisposed, monitorDisposed, timerArmed,
                   modelChangedConnected, subs, bpModel, pending, cleanups,
                   disposeCalls>>

DocOnly(d, name, line) ==
    /\ UNCHANGED <<modelVars, thrown, panelVars>>
    /\ doc' = d
    /\ lastOp' = Op(name, line)
    /\ UNCHANGED <<editorDisposed, lineNumbers, gutters, clickListener, hId, hPath,
                   session, isDisposed, monitorDisposed, timerArmed,
                   modelChangedConnected, subs, bpModel, pending, cleanups,
                   disposeCalls>>

\* EditorHandler.showCurrentLine(editor, line) on a line of the editor
ShowCurrentLine(line) ==
    /\ line \in 1..LineCount(doc)
    /\ DocOnly(showCurrentLine(doc, editorDisposed, line), "showCurrentLine", line)
    /\ UNCHANGED <<clickRun, inSync, oddClicked>>

\* EditorHandler.clearHighlight(editor)
ClearHighlight ==
    /\ DocOnly(clearHighlight(doc, editorDisposed), "clearHighlight", 0)
    /\ UNCHANGED <<clickRun, inSync, oddClicked>>

\* EditorHandler.clearGutter(editor)
ClearGutter ==
    /\ DocOnly(clearGutter(doc), "clearGutter", 0)
    /\ EndClickRun

\* callstack.currentFrameChanged is emitted
CurrentFrameChanged ==
    /\ modelResolved
    /\ DocOnly(EmitFrame(subs, doc, editorDisposed), "currentFrameChanged", 0)
    /\ UNCHANGED <<clickRun, inSync, oddClicked>>

\* service.modelChanged is emitted with the same model: a connected
\* _onModelChanged subscribes again
ModelChanged ==
    /\ modelResolved
    /\ subs < MaxSubs
    /\ UNCHANGED <<modelVars, thrown, panelVars>>
    /\ subs' = IF modelChangedConnected THEN subs + 1 ELSE subs
    /\ lastOp' = Op("modelChanged", 0)
    /\ UNCHANGED <<doc, editorDisposed, lineNumbers, gutters, clickListener, hId,
                   hPath, session, isDisposed, monitorDisposed, timerArmed,
                   modelChangedConnected, bpModel, pending, cleanups, disposeCalls,
                   clickRun, inSync, oddClicked>>

\* service.model is set to a new model and modelChanged is emitted to the
\* listening handler: _onModelChanged subscribes to the new model and leaves
\* its subscriptions on the model it held before
ModelReplaced(m) ==
    /\ modelChangedConnected
    /\ subs + oldSubs <= MaxSubs
    /\ modelResolved' = TRUE
    /\ oldSubs' = oldSubs + subs
    /\ subs' = 1
    /\ bpModel' = m
    /\ lastOp' = Op("modelReplaced", 0)
    /\ EndClickRun
    /\ UNCHANGED <<doc, editorDisposed, lineNumbers, gutters, clickListener, hId,
                   hPath, session, isDisposed, monitorDisposed, timerArmed,
                   modelChangedConnected, pending, cleanups, disposeCalls,
                   thrown, panelVars>>

\* service.model is set to null and modelChanged is emitted to the listening
\* handler: _onModelChanged stores the null and returns
ModelCleared ==
    /\ modelChangedConnected
    /\ modelResolved
    /\ modelResolved' = FALSE
    /\ oldSubs' = oldSubs + subs
    /\ subs' = 0
    /\ bpModel' = EmptyModel
    /\ lastOp' = Op("modelCleared", 0)
    /\ EndClickRun
    /\ UNCHANGED <<doc, editorDisposed, lineNumbers, gutters, clickListener, hId,
                   hPath, session, isDisposed, monitorDisposed, timerArmed,
                   modelChangedConnected, pending, cleanups, disposeCalls,
                   thrown, panelVars>>

\* the breakpoints of a model the service held earlier emit 'changed' or
\* 'restored': the slots left on it render from the model the handler holds now
StaleBreakpointsChanged ==
    /\ oldSubs > 0
    /\ doc' = IF modelResolved
              THEN Emit(oldSubs, doc, editorDisposed, bpModel, hPath, hId, session)
              ELSE doc
    /\ thrown' = (thrown \/ onBreakpointsThrows(modelResolved, editorDisposed))
    /\ lastOp' = Op("staleChanged", 0)
    /\ EndClickRun
    /\ UNCHANGED <<editorDisposed, lineNumbers, gutters, clickListener, hId, hPath,
                   session, isDisposed, monitorDisposed, timerArmed,
                   modelChangedConnected, subs, bpModel, pending, cleanups,
                   disposeCalls, modelVars, panelVars>>

\* the callstack of a model the service held earlier emits currentFrameChanged
StaleFrameChanged ==
    /\ oldSubs > 0
    /\ doc' = EmitFrame(oldSubs, doc, editorDisposed)
    /\ lastOp' = Op("staleFrameChanged", 0)
    /\ UNCHANGED <<editorDisposed, lineNumbers, gutters, clickListener, hId, hPath,
                   session, isDisposed, monitorDisposed, timerArmed,
                   modelChangedConnected, subs, bpModel, pending, cleanups,
                   disposeCalls, clickRun, inSync, oddClicked, modelVars, thrown,
                   panelVars>>

\* ------------------------------------------------------- Breakpoints panel
\* the closeAll button's onClick that asks twice
CloseAllClick_Twice ==
    /\ clearPending < MaxClears
    /\ clearPending' = clearPending + 2
    /\ lastOp' = Op("closeAll", 0)
    /\ UNCHANGED <<doc, editorDisposed, lineNumbers, gutters, clickListener, hId,
                   hPath, session, isDisposed, monitorDisposed, timerArmed,
                   modelChangedConnected, subs, bpModel, pending, cleanups,
                   disposeCalls, clickRun, inSync, oddClicked, modelVars, thrown,
                   children>>

\* the closeAll button's onClick: void service.clearBreakpoints()
CloseAllClick ==
    /\ clearPending < MaxClears
    /\ clearPending' = clearPending + 1
    /\ lastOp' = Op("closeAll", 0)
    /\ UNCHANGED <<doc, editorDisposed, lineNumbers, gutters, clickListener, hId,
                   hPath, session, isDisposed, monitorDisposed, timerArmed,
                   modelChangedConnected, subs, bpModel, pending, cleanups,
                   disposeCalls, clickRun, inSync, oddClicked, modelVars, thrown,
                   children>>

\* service.clearBreakpoints completes: the model is emptied and emits 'restored'
ClearBreakpointsDone ==
    /\ clearPending > 0
    /\ modelResolved
    /\ clearPending' = clearPending - 1
    /\ bpModel' = EmptyModel
    /\ doc' = Emit(subs, doc, editorDisposed, bpModel', hPath, hId, session)
    /\ lastOp' = Op("restored", 0)
    /\ EndClickRun
    /\ UNCHANGED <<editorDisposed, lineNumbers, gutters, clickListener, hId, hPath,
                   session, isDisposed, monitorDisposed, timerArmed,
                   modelChangedConnected, subs, pending, cleanups, disposeCalls,
                   modelVars, thrown, children>>

\* service.clearBreakpoints fails
ClearBreakpointsFailed ==
    /\ clearPending > 0
    /\ clearPending' = clearPending - 1
    /\ lastOp' = Op("clearFailed", 0)
    /\ UNCHANGED <<doc, editorDisposed, lineNumbers, gutters, clickListener, hId,
                   hPath, session, isDisposed, monitorDisposed, timerArmed,
                   modelChangedConnected, subs, bpModel, pending, cleanups,
                   disposeCalls, clickRun, inSync, oddClicked, modelVars, thrown,
                   children>>

\* ----------------------------------------------------------- specifications
\* renders and editor content: notifications, edits, the debounced send
Next ==
    \/ \E i \in 1..MaxPending : UpdateBreakpointsDone(i)
    \/ \E i \in 1..MaxPending : UpdateBreakpointsFailed(i)
    \/ BreakpointsChanged
    \/ \E m \in RestoreModels(doc, hPath) : BreakpointsRestored(m)
    \/ InsertLine
    \/ DeleteLine
    \/ ChangeLine
    \/ ActivityStopped
    \/ EditorDispose
    \/ \E s \in Sessions : SessionChanged(s)

Spec == Init /\ [][Next]_vars

\* gutter clicks against a model that updates, restores and switches session
NextClick ==
    \/ \E n \in 0..(MaxLines - 1) : GutterClick(n)
    \/ \E i \in 1..MaxPending : UpdateBreakpointsDone(i)
    \/ \E i \in 1..MaxPending : UpdateBreakpointsFailed(i)
    \/ BreakpointsChanged
    \/ \E m \in RestoreModels(doc, hPath) : BreakpointsRestored(m)
    \/ \E s \in Sessions : SessionChanged(s)

SpecClick == Init /\ [][NextClick]_vars

\* runs of gutter clicks from an empty model, with their updates in flight
NextClicks ==
    \/ \E n \in 0..(MaxLines - 1) : BurstClick(n)
    \/ \E i \in 1..MaxInFlight : UpdateBreakpointsDone(i)
    \/ \E i \in 1..MaxInFlight : UpdateBreakpointsFailed(i)
    \/ BreakpointsChanged

SpecClicks == InitClicks /\ [][NextClicks]_vars

\* the handler's disposal among the notifications and timers that reach it
NextDispose ==
    \/ Dispose
    \/ EditorDispose
    \/ BreakpointsChanged
    \/ \E m \in RestoreModels(doc, hPath) : BreakpointsRestored(m)
    \/ ChangeLine
    \/ ActivityStopped
    \/ \E i \in 1..MaxPending : UpdateBreakpointsFailed(i)
    \/ \E l \in 1..MaxLines : ShowCurrentLine(l)
    \/ CurrentFrameChanged
    \/ ModelChanged

SpecDispose == Init /\ [][NextDispose]_vars

\* the current-line highlight
NextHighlight ==
    \/ \E l \in 1..MaxLines : ShowCurrentLine(l)
    \/ ClearHighlight
    \/ CurrentFrameChanged
    \/ InsertLine
    \/ DeleteLine
    \/ EditorDispose

SpecHighlight == Init /\ [][NextHighlight]_vars

\* the editor around the handler's disposal: what dispose() leaves on it and
\* what a click on it does afterwards
NextTeardown ==
    \/ Dispose
    \/ \E n \in 0..(MaxLines - 1) : GutterClick(n)
    \/ \E i \in 1..MaxPending : UpdateBreakpointsFailed(i)
    \/ \E m \in RestoreModels(doc, hPath) : BreakpointsRestored(m)
    \/ \E l \in 1..MaxLines : ShowCurrentLine(l)
    \/ ChangeLine
    \/ EditorDispose

SpecTeardown == Init /\ [][NextTeardown]_vars

\* everything that draws or removes gutter markers, among gutter clicks
NextMarkers ==
    \/ \E n \in 0..(MaxLines - 1) : GutterClick(n)
    \/ \E i \in 1..MaxPending : UpdateBreakpointsDone(i)
    \/ \E i \in 1..MaxPending : UpdateBreakpointsFailed(i)
    \/ ClearGutter
    \/ Dispose

SpecMarkers == Init /\ [][NextMarkers]_vars

\* every operation that touches the editor, on an editor that may be disposed
\* and for a session that may not be the active one
NextGuards ==
    \/ \E l \in 1..MaxLines : ShowCurrentLine(l)
    \/ ClearHighlight
    \/ ClearGutter
    \/ \E n \in 0..(MaxLines - 1) : GutterClick(n)
    \/ BreakpointsChanged
    \/ \E m \in RestoreModels(doc, hPath) : BreakpointsRestored(m)
    \/ ChangeLine
    \/ ActivityStopped
    \/ \E i \in 1..MaxPending : UpdateBreakpointsFailed(i)
    \/ Dispose
    \/ EditorDispose
    \/ \E s \in Sessions : SessionChanged(s)

SpecGuards == Init /\ [][NextGuards]_vars

\* the service's model set, replaced and unset under the handler
NextModel ==
    \/ \E m \in RestoreModels(doc, hPath) : ModelReplaced(m)
    \/ ModelCleared
    \/ ModelChanged
    \/ StaleBreakpointsChanged
    \/ StaleFrameChanged
    \/ BreakpointsChanged
    \/ CurrentFrameChanged
    \/ \E l \in 1..MaxLines : ShowCurrentLine(l)
    \/ ClearGutter
    \/ \E n \in 0..(MaxLines - 1) : GutterClick(n)
    \/ \E i \in 1..MaxPending : UpdateBreakpointsFailed(i)

SpecModel == InitAnyModel /\ [][NextModel]_vars

\* the Breakpoints panel's button beside an editor whose gutter is clicked
NextPanel ==
    \/ CloseAllClick
    \/ ClearBreakpointsDone
    \/ ClearBreakpointsFailed
    \/ \E n \in 0..(MaxLines - 1) : GutterClick(n)
    \/ \E i \in 1..MaxPending : UpdateBreakpointsDone(i)
    \/ \E i \in 1..MaxPending : UpdateBreakpointsFailed(i)

SpecPanel == Init /\ [][NextPanel]_vars

\* ------------------------------------------------------------------ claims
Last(s) == s[Len(s)]
Lines(bps) == {bps[i].line : i \in 1..Len(bps)}
SessionMatches == hId = SessionPath(session)
Notified == lastOp.op \in {"changed", "restored"}

\* one more request than before, the earlier ones untouched
OneCallMade == /\ Len(pending') = Len(pending) + 1
               /\ SubSeq(pending', 1, Len(pending)) = pending

\* C1 (as stated): after a 'changed' or 'restored' notification reaches a handler
\* with a live editor and a matching session, the marked lines are exactly
\* { b.line - 1 : b in getBreakpoints(sourceId) }.
C1_MarkersAreModelLines ==
    (Notified /\ subs > 0 /\ ~editorDisposed /\ SessionMatches)
        => MarkedLines(doc) =
               {b.line - 1 : b \in Range(getBreakpoints(doc, bpModel, hPath))}

\* C1 (amended): the marked lines are exactly the model's lines, each drawn on
\* the nearest line of the document: min(b.line, lineCount) - 1.
C1_MarkersAreClippedModelLines ==
    (Notified /\ subs > 0 /\ ~editorDisposed /\ SessionMatches)
        => MarkedLines(doc) =
               {Min(b.line, LineCount(doc)) - 1 :
                    b \in Range(getBreakpoints(doc, bpModel, hPath))}

\* a notification rendered a breakpoint whose line lies below the last line
C1_Witness ==
    /\ Notified /\ subs > 0 /\ ~editorDisposed /\ SessionMatches
    /\ \E b \in Range(getBreakpoints(doc, bpModel, hPath)) : b.line > LineCount(doc)
    /\ MarkedLines(doc) # {}

\* C2 (as stated): in a run of gutter clicks from an empty breakpoint set, the
\* list the last click submitted holds exactly the lines clicked an odd number
\* of times.
C2_LastClickSubmitsOddClicked ==
    (clickRun /\ lastOp.op = "gutterClick")
        => (pending # <<>> /\ Lines(Last(pending).bps) = oddClicked)

\* C2 (amended): the same, for runs in which every click found the update of the
\* click before it applied to the model and rendered.
C2_InSyncClickSubmitsOddClicked ==
    (clickRun /\ inSync /\ lastOp.op = "gutterClick")
        => (pending # <<>> /\ Lines(Last(pending).bps) = oddClicked)

\* a third click has toggled one of two breakpoints off again
C2_Witness ==
    /\ clickRun /\ inSync /\ lastOp.op = "gutterClick"
    /\ Cardinality(oddClicked) = 1
    /\ Cardinality(Lines(getBreakpoints(doc, bpModel, hPath))) = 2
    /\ Lines(Last(pending).bps) = oddClicked

\* C3: a gutter click on a handler whose bound session is not the active one
\* makes no updateBreakpoints call and leaves the editor as it was.
C3_StaleClickDoesNothing ==
    [][(lastOp'.op = "gutterClick" /\ ~SessionMatches)
          => (pending' = pending /\ doc' = doc /\ bpModel' = bpModel
              /\ lineNumbers' = lineNumbers /\ gutters' = gutters)]_vars

\* a stale handler was clicked on a line while the model held breakpoints
C3_Witness ==
    /\ lastOp.op = "gutterClick" /\ ~SessionMatches
    /\ pending = <<>>
    /\ getBreakpoints(doc, bpModel, hPath) # <<>>

\* C4: a 'changed' or 'restored' notification that reaches a handler whose bound
\* session is not the active one leaves every gutter marker as it was.
C4_StaleRenderKeepsMarkers ==
    [][(lastOp'.op \in {"changed", "restored"} /\ ~SessionMatches)
          => doc' = doc]_vars

\* a stale handler kept its marker though the model holds no breakpoint there
C4_Witness ==
    /\ Notified /\ ~SessionMatches /\ ~editorDisposed /\ subs > 0
    /\ MarkedLines(doc) # {}
    /\ MarkedLines(doc) #
           {Min(b.line, LineCount(doc)) - 1 :
                b \in Range(getBreakpoints(doc, bpModel, hPath))}

\* C5: a gutter click on line n of a handler whose session matches makes exactly
\* one updateBreakpoints call, with the editor text, the path, and the model's
\* list without the breakpoints of line n + 1 if line n is marked, else the
\* model's list with a new breakpoint of line n + 1 appended.
C5_ClickSubmitsToggledList ==
    [][(lastOp'.op = "gutterClick" /\ SessionMatches)
          => LET n == lastOp'.line
                 current == getBreakpoints(doc, bpModel, hPath)
                 Other(b) == b.line # n + 1
                 added == [line |-> n + 1, active |-> TRUE, verified |-> TRUE,
                           source |-> IF hPath # NoPath THEN hPath
                                      ELSE SessionName(session)]
             IN  /\ OneCallMade
                 /\ Last(pending').code = Text(doc)
                 /\ Last(pending').path = hPath
                 /\ Last(pending').bps =
                        IF n \in MarkedLines(doc)
                        THEN SelectSeq(current, Other)
                        ELSE Append(current, added)
                 /\ doc' = doc]_vars

\* a click on a marked line removed it and kept the other breakpoint
C5_Witness ==
    /\ lastOp.op = "gutterClick" /\ SessionMatches
    /\ lastOp.line \in MarkedLines(doc)
    /\ Len(getBreakpoints(doc, bpModel, hPath)) = 2
    /\ pending # <<>>
    /\ Len(Last(pending).bps) = 1
    /\ Last(pending).bps[1].line # lastOp.line + 1

\* the events that reach the handler through its subscriptions and listeners
HandlerEvents ==
    {"changed", "restored", "currentFrameChanged", "modelChanged",
     "editorChanged", "activityStopped", "gutterClick"}

\* C6: once dispose() has returned, no notification, timer or click that reaches
\* the handler changes the editor's gutter markers or its highlighted line.
C6_NoMutationAfterDispose ==
    [][(isDisposed /\ lastOp'.op \in HandlerEvents)
          => (MarkedLines(doc') = MarkedLines(doc)
              /\ HighlightedLines(doc') = HighlightedLines(doc))]_vars

\* C7: dispose() is idempotent: the cleanup steps run at most once over any
\* number of calls, a call on a disposed handler changes nothing, and
\* isDisposed stays true once set.
C7_DisposeIdempotent ==
    /\ [](cleanups <= 1)
    /\ [][isDisposed => isDisposed']_vars
    /\ [][(lastOp'.op = "dispose" /\ isDisposed)
             => (doc' = doc /\ lineNumbers' = lineNumbers /\ gutters' = gutters
                 /\ clickListener' = clickListener /\ timerArmed' = timerArmed
                 /\ monitorDisposed' = monitorDisposed
                 /\ modelChangedConnected' = modelChangedConnected
                 /\ subs' = subs /\ cleanups' = cleanups)]_vars

\* a second dispose() left alone the markers and the highlight that the live
\* editor carried by then
C7_Witness ==
    /\ lastOp.op = "dispose" /\ disposeCalls = 2 /\ cleanups = 1
    /\ ~editorDisposed
    /\ MarkedLines(doc) # {}
    /\ HighlightedLines(doc) # {}

\* the breakpoints _sendEditorBreakpoints is to submit: one per marked line, in
\* line order, 1-indexed, stamped with the session's display name
MarkerBreakpoints(d, sess) ==
    LET F[i \in 0..Len(d)] ==
            IF i = 0 THEN <<>>
            ELSE IF d[i].mk
                 THEN Append(F[i - 1], [line |-> i, active |-> TRUE,
                                        verified |-> TRUE,
                                        source |-> SessionName(sess)])
                 ELSE F[i - 1]
    IN  F[Len(d)]

\* C8: when the editor content settles on a live editor, the handler submits one
\* request: one breakpoint per marked line at the line's current position + 1,
\* stamped with the session's display name, with the current text and the path.
C8_SettledSendsMarkerPositions ==
    [][(lastOp'.op = "activityStopped" /\ ~editorDisposed)
          => (/\ OneCallMade
              /\ Last(pending') = [code |-> Text(doc'),
                                   bps  |-> MarkerBreakpoints(doc', session'),
                                   path |-> hPath])]_vars

\* a marker moved down with its line: it is submitted as line 2 while the model
\* still holds it as line 1
C8_Witness ==
    /\ lastOp.op = "activityStopped" /\ ~editorDisposed
    /\ pending # <<>>
    /\ Lines(Last(pending).bps) = {2}
    /\ Lines(getBreakpoints(doc, bpModel, hPath)) = {1}

\* C9 (as stated): a content change makes no call; the elapse of the quiet
\* period makes exactly one, carrying the text as it then is, and stops the timer.
C9_OneCallPerBurst ==
    /\ [][lastOp'.op = "editorChanged" => pending' = pending]_vars
    /\ [][lastOp'.op = "activityStopped"
             => (/\ timerArmed /\ ~timerArmed'
                 /\ OneCallMade
                 /\ Last(pending').code = Text(doc'))]_vars

\* C9 (amended): the same while the editor is not disposed; once the editor is
\* disposed the elapse of the quiet period makes no call.
C9_OneCallPerBurstOnLiveEditor ==
    /\ [][lastOp'.op = "editorChanged"
             => (pending' = pending /\ timerArmed' = ~monitorDisposed)]_vars
    /\ [][lastOp'.op = "activityStopped"
             => (/\ timerArmed /\ ~timerArmed'
                 /\ IF editorDisposed
                    THEN pending' = pending
                    ELSE OneCallMade /\ Last(pending').code = Text(doc'))]_vars

\* the quiet period elapsed on a live editor whose text differs from the text
\* the model's breakpoints were last stored under
C9_Witness ==
    /\ lastOp.op = "activityStopped" /\ ~editorDisposed /\ ~timerArmed
    /\ pending # <<>>
    /\ Last(pending).code = Text(doc)
    /\ LineCount(doc) < MaxLines

\* C10: at most one line of an editor carries the current-line highlight, and
\* right after showCurrentLine(editor, L) on a live editor that line is L.
C10_OneHighlightedLine ==
    /\ Cardinality(HighlightedLines(doc)) <= 1
    /\ (lastOp.op = "showCurrentLine" /\ ~editorDisposed)
           => HighlightedLines(doc) = {lastOp.line - 1}

\* C11: right after the first dispose() of a handler whose editor is live, the
\* editor has no gutter marker and no highlighted line, line numbers are off,
\* the gutter list is empty, the monitor is stopped, the click listener is
\* removed and isDisposed is true; a later gutter click on the live editor
\* makes no updateBreakpoints call.
C11_DisposeStripsEditor ==
    /\ [][(lastOp'.op = "dispose" /\ ~isDisposed /\ ~editorDisposed)
             => (/\ MarkedLines(doc') = {}
                 /\ HighlightedLines(doc') = {}
                 /\ ~lineNumbers'
                 /\ ~gutters'
                 /\ monitorDisposed' /\ ~timerArmed'
                 /\ ~clickListener'
                 /\ isDisposed')]_vars
    /\ [][(isDisposed /\ ~editorDisposed /\ lastOp'.op = "gutterClick")
             => pending' = pending]_vars

\* a handler whose model holds breakpoints was disposed of and its live editor
\* then clicked: the markers are gone and no call was made
C11_Witness ==
    /\ lastOp.op = "gutterClick" /\ isDisposed /\ ~editorDisposed
    /\ cleanups = 1
    /\ MarkedLines(doc) = {} /\ HighlightedLines(doc) = {}
    /\ getBreakpoints(doc, bpModel, hPath) # <<>>
    /\ pending = <<>>

\* the operations of the handler that touch the editor
EditorOps ==
    {"changed", "restored", "activityStopped", "gutterClick", "showCurrentLine",
     "clearHighlight", "clearGutter", "dispose"}

\* C12: an operation that touches the editor, run on a disposed editor, returns
\* without mutating the editor and without submitting what it would have read
\* from it.
C12_DisposedEditorUntouched ==
    [][(editorDisposed /\ lastOp'.op \in EditorOps)
          => (doc' = doc /\ lineNumbers' = lineNumbers /\ gutters' = gutters
              /\ clickListener' = clickListener /\ pending' = pending)]_vars

\* C13: an activation of the closeAll button makes exactly one clearBreakpoints
\* request and no other request to the service, and returns with it in flight;
\* the panel's children are the header and then the body, before and after
\* the activation and the request's success or failure.
C13_CloseAllClearsOnce ==
    /\ [](children = <<"header", "body">>)
    /\ [][lastOp'.op = "closeAll"
             => (/\ clearPending' = clearPending + 1
                 /\ pending' = pending
                 /\ bpModel' = bpModel
                 /\ session' = session
                 /\ doc' = doc)]_vars
    /\ [][clearPending' < clearPending => children' = children]_vars

\* the button was activated a second time while the first request was still in
\* flight and the model still held a breakpoint
C13_Witness ==
    /\ lastOp.op = "closeAll"
    /\ clearPending = 2
    /\ getBreakpoints(doc, bpModel, hPath) # <<>>
    /\ children = <<"header", "body">>

\* the operations that draw or remove gutter markers
MarkerOps == {"changed", "restored", "clearGutter", "dispose"}

\* C14: a gutter click leaves the editor's gutter markers as they were, as does
\* every step up to the next 'changed' or 'restored' notification; the marked
\* lines change only in a render, in clearGutter or in dispose.
C14_ClickKeepsMarkers ==
    /\ [][lastOp'.op = "gutterClick" => doc' = doc]_vars
    /\ [][MarkedLines(doc') # MarkedLines(doc) => lastOp'.op \in MarkerOps]_vars

\* a click on a marked line submitted a list without that line, and the line
\* still carries its marker
C14_Witness ==
    /\ lastOp.op = "gutterClick" /\ SessionMatches /\ ~isDisposed
    /\ lastOp.line \in MarkedLines(doc)
    /\ pending # <<>>
    /\ (lastOp.line + 1) \notin Lines(Last(pending).bps)

NoTwoOnALine(bps) ==
    \A i, j \in 1..Len(bps) : i # j => bps[i].line # bps[j].line

C16_StaleHandlerNeverUpdates ==
    [][(~SessionMatches /\ lastOp'.op \in {"gutterClick", "activityStopped"})
          => pending' = pending]_vars

\* C17: a handler constructed while the service has no model raises no error
\* and draws no marker, it holds its subscriptions once a modelChanged
\* supplies a model, and no operation of it dereferences an unresolved model.
C17_NoModelNoError ==
    /\ ~thrown
    /\ (lastOp.op = "constructor" /\ ~modelResolved) => MarkedLines(doc) = {}
    /\ lastOp.op = "modelReplaced" => (modelResolved /\ subs = 1)

\* C18: after a modelChanged notification re-resolves the model, the handler
\* holds one subscription of each kind on the current model and none on an
\* earlier one: a notification of an earlier model changes nothing in the
\* editor.
C18_OneSubscriptionPerModel ==
    /\ [][(lastOp'.op \in {"modelChanged", "modelReplaced"} /\ modelResolved')
             => (subs' = 1 /\ oldSubs' = 0)]_vars
    /\ [][lastOp'.op \in {"staleChanged", "staleFrameChanged"}
             => doc' = doc]_vars

====
